---- MODULE Spec2Model ----
(***************************************************************************)
(* A model of socketplusplus (src/tcpsock.hpp): the classes skt::Socket    *)
(* and skt::Node over a model of the operating system's descriptor table   *)
(* and TCP connections.                                                    *)
(*                                                                         *)
(* src/tcpsock.hpp holds two versions of the header, one after the other:  *)
(* lines 1-513 (here: variant 1) and lines 514-957 (variant 2).  The       *)
(* variable `variant` says which one the program was built with.           *)
(* The POSIX build (sock_t = int, INVALID_SOCKET = -1) is the one modelled.*)
(*                                                                         *)
(* A byte string is kept run-length encoded: a sequence of runs            *)
(* [b |-> byte, n |-> count], n > 0, adjacent runs of different bytes.     *)
(* This keeps the real buffer size of 4096 bytes.                          *)
(***************************************************************************)
EXTENDS Integers, Sequences, FiniteSets, TLC

(***************************************************************************)
(* Bounds of the model.                                                    *)
(***************************************************************************)
MaxFd    == 5      \* descriptors are 0..MaxFd; 0, 1, 2 are the standard streams
MaxSocks == 2      \* skt::Socket objects
MaxNodes == 1      \* skt::Node objects on the heap
MaxLocals == 1     \* skt::Node objects the caller constructs itself
MaxConns == 1      \* TCP connections the OS sets up during a run
MaxSends == 1      \* send calls that reach an established connection

(***************************************************************************)
(* Program constants.                                                      *)
(***************************************************************************)
INVALID_SOCKET == -1
BUFFER_SIZE    == 4096
QUEUED_V1      == 10
QUEUED_V2      == 3
PORT           == 49110

ANY_ADDR  == "0.0.0.0"
LOCALHOST == "127.0.0.1"

Fds     == 0..MaxFd
StdFds  == {0, 1, 2}
SockIds == 1..MaxSocks
NodeIds == 1..MaxNodes
LocalIds == (MaxNodes + 1)..(MaxNodes + MaxLocals)
AllNodeIds == NodeIds \cup LocalIds
ConnIds == 1..MaxConns
Ports   == {PORT}
Ips     == {ANY_ADDR}
Backlogs == {1}

Min(a, b) == IF a < b THEN a ELSE b

(***************************************************************************)
(* Byte strings (run-length encoded).                                      *)
(***************************************************************************)
Rep(b, n) == IF n <= 0 THEN << >> ELSE << [b |-> b, n |-> n] >>

RECURSIVE Len_(_)
Len_(d) == IF d = << >> THEN 0 ELSE Head(d).n + Len_(Tail(d))

Cat(d, e) ==
    IF d = << >> THEN e
    ELSE IF e = << >> THEN d
    ELSE IF d[Len(d)].b = e[1].b
         THEN SubSeq(d, 1, Len(d) - 1)
              \o << [b |-> e[1].b, n |-> d[Len(d)].n + e[1].n] >>
              \o Tail(e)
         ELSE d \o e

RECURSIVE Take(_, _)
Take(d, k) ==
    IF k <= 0 \/ d = << >> THEN << >>
    ELSE IF Head(d).n <= k
         THEN << Head(d) >> \o Take(Tail(d), k - Head(d).n)
         ELSE << [b |-> Head(d).b, n |-> k] >>

RECURSIVE Drop(_, _)
Drop(d, k) ==
    IF k <= 0 \/ d = << >> THEN d
    ELSE IF Head(d).n <= k
         THEN Drop(Tail(d), k - Head(d).n)
         ELSE << [b |-> Head(d).b, n |-> Head(d).n - k] >> \o Tail(d)

\* The payloads a caller hands to send: empty, exactly one buffer, one byte
\* more than a buffer.
PayloadIds == 1..3
Payload(i) ==
    CASE i = 1 -> << >>
      [] i = 2 -> Cat(Rep("a", BUFFER_SIZE - 1), Rep("b", 1))
      [] OTHER -> Cat(Rep("a", BUFFER_SIZE), Rep("b", 1))

\* A char buffer[4096] that was never written: 4096 indeterminate bytes.
Garbage == Rep("?", BUFFER_SIZE)

(***************************************************************************)
(* Addresses: sockaddr_in as [fam, addr, port].                            *)
(***************************************************************************)
inet_addr(ip) == IF ip = LOCALHOST THEN 2130706433 ELSE 0
inet_ntoa(a)  == IF a = 2130706433 THEN LOCALHOST ELSE ANY_ADDR
htons(p)      == p % 65536
INADDR_ANY    == 0

\* What value-initialisation (new Node()) leaves in a sockaddr_in.
ZeroAddr == [fam |-> "AF_UNSPEC", addr |-> 0, port |-> 0]

(***************************************************************************)
(* State.                                                                  *)
(***************************************************************************)
VARIABLES
    variant,   \* 1: the header of lines 1-513, 2: the header of lines 514-957
    fdt,       \* OS: the process's descriptor table
    conns,     \* OS: the TCP connections, with the bytes queued in each direction
    socks,     \* the skt::Socket objects
    nodes,     \* the skt::Node objects
    stale,     \* descriptors a successful Socket::close() freed, not handed out since
    closed,    \* Socket objects on which close() has succeeded
    last       \* the last library call: its arguments, its OS calls, its outcome

vars == << variant, fdt, conns, socks, nodes, stale, closed, last >>

(***************************************************************************)
(* The operating system: descriptors.                                      *)
(***************************************************************************)
FreeFd  == [kind |-> "free", st |-> "none", reuse |-> FALSE, port |-> 0,
            backlog |-> 0, conn |-> 0, side |-> "-"]
StdFd   == [FreeFd EXCEPT !.kind = "std"]
\* The table's entry for a socket in state st.
SockFd(st, conn, side) ==
    [kind |-> "sock", st |-> st, reuse |-> FALSE, port |-> 0,
     backlog |-> 0, conn |-> conn, side |-> side]

NoConn == [st |-> "unused", lfd |-> 0, peer |-> ZeroAddr,
           open  |-> [x \in {"c", "s"} |-> FALSE],
           inq   |-> [x \in {"c", "s"} |-> << >>],
           sends |-> [x \in {"c", "s"} |-> << >>],
           got   |-> [x \in {"c", "s"} |-> << >>],
           nrecv |-> [x \in {"c", "s"} |-> 0]]

Other(x) == IF x = "c" THEN "s" ELSE "c"

IsOpen(t, fd) == fd \in Fds /\ t[fd].kind # "free"
IsSock(t, fd) == fd \in Fds /\ t[fd].kind = "sock"
HasFree(t)    == \E f \in Fds : t[f].kind = "free"
\* The OS hands out the lowest descriptor number that is not in use.
LowestFree(t) == CHOOSE f \in Fds : t[f].kind = "free"
                                    /\ \A g \in Fds : g < f => t[g].kind # "free"

\* One OS call as the library issued it: its descriptor, its address or
\* number argument, and what the OS answered.
Call(name, fd, a, n, res) ==
    [call |-> name, fd |-> fd, a |-> a, n |-> n, res |-> res]

\* ::socket(AF_INET, SOCK_STREAM, ...)
os_socket(t, fail) ==
    IF fail \/ ~HasFree(t)
    THEN [res |-> -1, t |-> t]
    ELSE [res |-> LowestFree(t), t |-> [t EXCEPT ![LowestFree(t)] = SockFd("created", 0, "-")]]

\* ::setsockopt(fd, SOL_SOCKET, SO_REUSEADDR, 1)
os_setsockopt(t, fd, fail) ==
    IF fail \/ ~IsSock(t, fd)
    THEN [res |-> -1, t |-> t]
    ELSE [res |-> 0, t |-> [t EXCEPT ![fd].reuse = TRUE]]

\* EADDRINUSE: another socket holds the port, unless both set SO_REUSEADDR
\* and the other one is not listening.
PortBusy(t, fd, port) ==
    \E g \in Fds : /\ g # fd
                   /\ t[g].kind = "sock"
                   /\ t[g].st \in {"bound", "listening"}
                   /\ t[g].port = port
                   /\ (~t[fd].reuse \/ ~t[g].reuse \/ t[g].st = "listening")

\* ::bind(fd, addr, len)
os_bind(t, fd, a, fail) ==
    IF fail \/ ~IsSock(t, fd)
    THEN [res |-> -1, t |-> t]
    ELSE IF t[fd].st # "created" \/ a.fam # "AF_INET" \/ PortBusy(t, fd, a.port)
    THEN [res |-> -1, t |-> t]
    ELSE [res |-> 0, t |-> [t EXCEPT ![fd].st = "bound", ![fd].port = a.port]]

\* ::listen(fd, backlog)
os_listen(t, fd, backlog, fail) ==
    IF fail \/ ~IsSock(t, fd)
    THEN [res |-> -1, t |-> t]
    ELSE IF t[fd].st \notin {"bound", "listening"}
    THEN [res |-> -1, t |-> t]
    ELSE [res |-> 0,
          t |-> [t EXCEPT ![fd].st = "listening", ![fd].backlog = backlog]]

(***************************************************************************)
(* The operating system: connections.                                      *)
(***************************************************************************)
Listener(t, port) ==
    { g \in Fds : t[g].kind = "sock" /\ t[g].st = "listening" /\ t[g].port = port }
Pending(cs, lfd) == { c \in ConnIds : cs[c].st = "pending" /\ cs[c].lfd = lfd }
UnusedConns(cs)  == { c \in ConnIds : cs[c].st = "unused" }
NewConn(cs)      == CHOOSE c \in UnusedConns(cs) : \A d \in UnusedConns(cs) : c <= d
\* The address the OS gives the connecting socket: loopback, an ephemeral port.
PeerAddr(fd)     == [fam |-> "AF_INET", addr |-> inet_addr(LOCALHOST),
                     port |-> 50000 + fd]

\* Whether ::connect(fd, a) would set up a connection.
CanConnect(t, cs, fd, a) ==
    /\ IsSock(t, fd)
    /\ t[fd].st = "created"
    /\ a.fam = "AF_INET"
    /\ Listener(t, a.port) # {}
    /\ \A l \in Listener(t, a.port) : Cardinality(Pending(cs, l)) <= t[l].backlog

\* ::connect(fd, a, len).  An AF_UNSPEC address asks for no connection: the
\* OS either answers 0 and leaves the socket unconnected (Linux) or refuses
\* the address (unspecOk says which).
os_connect(t, cs, fd, a, fail, unspecOk) ==
    IF fail \/ ~IsSock(t, fd)
    THEN [res |-> -1, t |-> t, cs |-> cs]
    ELSE IF a.fam = "AF_UNSPEC"
    THEN [res |-> IF unspecOk /\ t[fd].st \in {"created", "connected"}
                  THEN 0 ELSE -1,
          t |-> t, cs |-> cs]
    ELSE IF ~CanConnect(t, cs, fd, a)
    THEN [res |-> -1, t |-> t, cs |-> cs]
    ELSE LET c == NewConn(cs)
             l == CHOOSE g \in Listener(t, a.port) : TRUE
         IN  [res |-> 0,
              t   |-> [t EXCEPT ![fd].st = "connected", ![fd].conn = c,
                                ![fd].side = "c"],
              cs  |-> [cs EXCEPT ![c] =
                         [NoConn EXCEPT !.st = "pending", !.lfd = l,
                                        !.peer = PeerAddr(fd),
                                        !.open = [x \in {"c", "s"} |-> TRUE]]]]

\* Whether ::accept(fd) has a connection to hand over.
CanAccept(t, cs, fd) ==
    IsSock(t, fd) /\ t[fd].st = "listening" /\ Pending(cs, fd) # {} /\ HasFree(t)
\* Whether ::accept(fd) returns at all (it blocks on an empty queue).
AcceptReturns(t, cs, fd, fail) ==
    ~(/\ ~fail
      /\ IsSock(t, fd)
      /\ t[fd].st = "listening"
      /\ HasFree(t)
      /\ Pending(cs, fd) = {})

\* ::accept(fd, &addr, &len): the oldest pending connection, on a new descriptor.
os_accept(t, cs, fd, fail) ==
    IF fail \/ ~CanAccept(t, cs, fd)
    THEN [res |-> -1, t |-> t, cs |-> cs, peer |-> ZeroAddr]
    ELSE LET c == CHOOSE x \in Pending(cs, fd) : \A y \in Pending(cs, fd) : x <= y
             f == LowestFree(t)
         IN  [res |-> f,
              t   |-> [t EXCEPT ![f] = SockFd("connected", c, "s")],
              cs  |-> [cs EXCEPT ![c].st = "open", ![c].lfd = 0],
              peer |-> cs[c].peer]

IsConnected(t, fd) == IsSock(t, fd) /\ t[fd].st = "connected"

\* Whether ::send(fd, ...) can put bytes on a connection.
CanSend(t, cs, fd) ==
    /\ IsSock(t, fd)
    /\ t[fd].st = "connected"
    /\ cs[t[fd].conn].open[Other(t[fd].side)]

\* ::send(fd, data, len, 0): the OS takes the first k bytes, k <= len.
os_send(t, cs, fd, data, k, fail) ==
    IF fail \/ ~CanSend(t, cs, fd)
    THEN [res |-> -1, cs |-> cs]
    ELSE LET c == t[fd].conn
             to == Other(t[fd].side)
         IN  [res |-> k,
              cs  |-> [cs EXCEPT
                         ![c].inq[to] = Cat(@, Take(data, k)),
                         ![c].sends[to] = Append(@, [p |-> data, k |-> k])]]

\* Whether ::recv(fd, ...) returns at all (it blocks while the queue is
\* empty and the peer has not closed).
RecvReturns(t, cs, fd, fail) ==
    IF fail THEN TRUE
    ELSE IF ~IsSock(t, fd) THEN TRUE
    ELSE IF t[fd].st # "connected" THEN TRUE
    ELSE ~(/\ cs[t[fd].conn].inq[t[fd].side] = << >>
           /\ cs[t[fd].conn].open[Other(t[fd].side)])

\* The bytes queued for descriptor fd.
Queued(t, cs, fd) ==
    IF IsSock(t, fd) /\ t[fd].st = "connected"
    THEN cs[t[fd].conn].inq[t[fd].side] ELSE << >>

\* ::recv(fd, buf, size, 0): the OS copies the first n queued bytes to the
\* start of buf, 1 <= n <= size, or answers 0 at the end of the stream.
\* del: the bytes delivered.
os_recv(t, cs, fd, buf, n, fail) ==
    IF fail \/ ~IsSock(t, fd)
    THEN [res |-> -1, cs |-> cs, buf |-> buf, del |-> << >>]
    ELSE IF t[fd].st # "connected"
    THEN [res |-> -1, cs |-> cs, buf |-> buf, del |-> << >>]
    ELSE LET c == t[fd].conn
             me == t[fd].side
             q == cs[c].inq[me]
         IN  IF q = << >>
             THEN [res |-> 0, cs |-> cs, buf |-> buf, del |-> << >>]
             ELSE [res |-> n,
                   del |-> Take(q, n),
                   cs  |-> [cs EXCEPT ![c].inq[me] = Drop(q, n),
                                      ![c].nrecv[me] = @ + 1],
                   buf |-> Cat(Take(q, n), Drop(buf, n))]

\* ::close(fd)
os_close(t, cs, fd) ==
    IF ~IsOpen(t, fd)
    THEN [res |-> -1, t |-> t, cs |-> cs]
    ELSE [res |-> 0,
          t   |-> [t EXCEPT ![fd] = FreeFd],
          cs  |-> [c \in ConnIds |->
                     IF t[fd].kind = "sock" /\ t[fd].st = "connected"
                        /\ t[fd].conn = c
                     THEN [cs[c] EXCEPT !.open[t[fd].side] = FALSE,
                                        !.inq[t[fd].side] = << >>]
                     ELSE IF t[fd].kind = "sock" /\ t[fd].st = "listening"
                             /\ cs[c].st = "pending" /\ cs[c].lfd = fd
                     THEN [cs[c] EXCEPT !.st = "open", !.lfd = 0,
                                        !.open["s"] = FALSE]
                     ELSE cs[c]]]

(***************************************************************************)
(* The library's objects.                                                  *)
(***************************************************************************)
\* A Socket that has not been constructed.
NoSock == [made |-> FALSE, thrown |-> FALSE, socket |-> -1, ip |-> "", port |-> 0,
           isClient |-> FALSE, reuseAddr |-> FALSE, queued |-> 0,
           addr |-> ZeroAddr, buffer |-> Garbage]

\* new Node(): value-initialisation zeroes the object, then the default
\* member initialisers run (port{}, sock_fd{}, noCloseOnDestruct = false).
NewNode == [alive |-> TRUE, sock_fd |-> 0, ip |-> "", port |-> 0,
            addr |-> ZeroAddr, noCloseOnDestruct |-> FALSE,
            buffer |-> Rep("0", BUFFER_SIZE),
            handed |-> FALSE]   \* ghost: sock_fd is a descriptor the Node was handed
NoNode  == [NewNode EXCEPT !.alive = FALSE]

NoArgs == [port |-> 0, ip |-> "", isClient |-> FALSE, reuseAddr |-> FALSE,
           queued |-> 0]
NoLast == [op |-> "none", kind |-> "-", obj |-> 0, ctor |-> 0, args |-> NoArgs,
           fd |-> -1, data |-> << >>, err |-> "", calls |-> << >>,
           hasRet |-> FALSE, ret |-> 0, out |-> << >>, node |-> 0,
           noClose |-> FALSE]

FreeNodes == { n \in NodeIds : ~nodes[n].alive }
NewNodeId == CHOOSE n \in FreeNodes : \A m \in FreeNodes : n <= m

\* The std::runtime_error messages of the library, by the names the
\* specification gives the failures.
\*   "Error creating socket"                        CreationError
\*   "Error setting socket options"                 OptionError
\*   "Error binding socket to IP/Port"              BindError
\*   "Error listening to socket"                    ListenError
\*   "Can't accept connections on a client socket"  RoleError
\*   "Can't connect on a server socket"             RoleError
\*   "Error accepting connection"                   AcceptError
\*   "Error connecting to server"                   ConnectError
\*   "Error sending data"                           SendError
\*   "Error receiving data"                         RecvError
\*   "Error closing socket"                         CloseError

(***************************************************************************)
(* Socket: construction.                                                   *)
(***************************************************************************)
\* Socket::createSocket
createSocket(t, fail) ==
    LET r == os_socket(t, fail)
    IN  [err   |-> IF r.res = INVALID_SOCKET THEN "CreationError" ELSE "",
         res   |-> r.res,
         calls |-> << Call("socket", -1, ZeroAddr, 0, r.res) >>,
         t     |-> r.t]

\* Socket::setAddr
Socket_setAddr(v, sk) ==
    [fam  |-> "AF_INET",
     port |-> htons(sk.port),
     addr |-> IF v = 1
              THEN (IF sk.isClient THEN inet_addr(sk.ip) ELSE INADDR_ANY)
              ELSE inet_addr(sk.ip)]

\* Socket::bindSocket
bindSocket(t, sk, failOpt, failBind) ==
    LET o == IF sk.reuseAddr
             THEN os_setsockopt(t, sk.socket, failOpt)
             ELSE [res |-> 0, t |-> t]
        oc == IF sk.reuseAddr
              THEN << Call("setsockopt", sk.socket, ZeroAddr, 1, o.res) >>
              ELSE << >>
        b == os_bind(o.t, sk.socket, sk.addr, failBind)
    IN  IF o.res < 0
        THEN [err |-> "OptionError", calls |-> oc, t |-> o.t]
        ELSE [err   |-> IF b.res < 0 THEN "BindError" ELSE "",
              calls |-> oc \o << Call("bind", sk.socket, sk.addr, 0, b.res) >>,
              t     |-> b.t]

\* Socket::listenSocket
listenSocket(t, sk, fail) ==
    LET l == os_listen(t, sk.socket, sk.queued, fail)
    IN  [err   |-> IF l.res < 0 THEN "ListenError" ELSE "",
         calls |-> << Call("listen", sk.socket, ZeroAddr, sk.queued, l.res) >>,
         t     |-> l.t]

\* The members as the constructor's assignments leave them.  The five
\* argument constructor never assigns reuseAddr (the member stays
\* indeterminate: junk), and in variant 2 it never assigns queued either
\* (the member keeps its initialiser, queued{}).
CtorFields(v, ctor, a, junk) ==
    [made      |-> FALSE,
     thrown    |-> FALSE,
     socket    |-> -1,
     ip        |-> IF ctor = 2 THEN LOCALHOST ELSE a.ip,
     port      |-> a.port,
     isClient  |-> a.isClient,
     reuseAddr |-> IF ctor = 2 THEN TRUE ELSE junk,
     queued    |-> IF ctor = 2
                   THEN (IF v = 1 THEN QUEUED_V1 ELSE QUEUED_V2)
                   ELSE (IF v = 1 THEN a.queued ELSE 0),
     addr      |-> [fam |-> "AF_UNSPEC", addr |-> 0, port |-> 0],
     buffer    |-> Garbage]

\* The steps at which the environment may make an OS call of the
\* construction fail: 1 socket, 2 setsockopt, 3 bind, 4 listen (0: none).
FailSteps(isClient) == IF isClient THEN {0, 1} ELSE 0..4

\* Socket::Socket, both constructors: createSocket, setAddr, and for a
\* server bindSocket and listenSocket.  An exception leaves no object; the
\* descriptor createSocket obtained stays open.
Construct(s, ctor, port, ip, isClient, reuseAddr, queued, junk, failAt) ==
    /\ LET a  == [port |-> port, ip |-> ip, isClient |-> isClient,
                  reuseAddr |-> reuseAddr, queued |-> queued]
           f0 == CtorFields(variant, ctor, a, junk)
           cr == createSocket(fdt, failAt = 1)
           f1 == [f0 EXCEPT !.socket = cr.res]
           sk == [f1 EXCEPT !.addr = Socket_setAddr(variant, f1)]
           b  == IF cr.err # "" \/ sk.isClient
                 THEN [err |-> cr.err, calls |-> << >>, t |-> cr.t]
                 ELSE bindSocket(cr.t, sk, failAt = 2, failAt = 3)
           l  == IF b.err # "" \/ sk.isClient
                 THEN [err |-> b.err, calls |-> << >>, t |-> b.t]
                 ELSE listenSocket(b.t, sk, failAt = 4)
       IN  /\ fdt' = l.t
           /\ socks' = IF l.err = ""
                       THEN [socks EXCEPT ![s] = [sk EXCEPT !.made = TRUE]]
                       ELSE [socks EXCEPT ![s].thrown = TRUE]
           /\ stale' = stale \ {cr.res}
           /\ last' = [NoLast EXCEPT
                          !.op = "construct", !.kind = "Socket", !.obj = s,
                          !.ctor = ctor, !.args = a, !.fd = cr.res,
                          !.err = l.err,
                          !.calls = cr.calls \o b.calls \o l.calls]
    /\ UNCHANGED << variant, conns, nodes, closed >>

\* Each Socket object is constructed once, the objects in the order of
\* their numbers; one whose constructor threw never comes to exist.
Fresh(s) ==
    /\ ~socks[s].made /\ ~socks[s].thrown
    /\ \A x \in SockIds : x < s => (socks[x].made \/ socks[x].thrown)

\* A client never reads reuseAddr: the argument and the member's value
\* make no difference to it.
ReuseArgs(isClient) == IF isClient THEN {TRUE} ELSE BOOLEAN
ReuseJunk(isClient) == IF isClient THEN {FALSE} ELSE BOOLEAN

\* Socket(int port, bool isClient)
Construct2(s) ==
    /\ Fresh(s)
    /\ \E port \in Ports, isClient \in BOOLEAN :
      \E failAt \in FailSteps(isClient) :
        Construct(s, 2, port, LOCALHOST, isClient, TRUE,
                  IF variant = 1 THEN QUEUED_V1 ELSE QUEUED_V2, TRUE, failAt)

\* Socket(int port, bool isClient), with no OS call failing for a reason
\* outside the model (socket() still fails when the table is full).
Construct2Ok(s) ==
    /\ Fresh(s)
    /\ \E port \in Ports, isClient \in BOOLEAN :
        Construct(s, 2, port, LOCALHOST, isClient, TRUE,
                  IF variant = 1 THEN QUEUED_V1 ELSE QUEUED_V2, TRUE, 0)

\* Socket(int port, std::string ip, bool isClient, bool reuseAddr, int queued)
\* junk: the value the build leaves in the member reuseAddr, which this
\* constructor reads without ever having assigned it.
Construct5(s) ==
    /\ Fresh(s)
    /\ \E port \in Ports, ip \in Ips, isClient \in BOOLEAN, queued \in Backlogs :
       \E reuseAddr \in ReuseArgs(isClient), junk \in ReuseJunk(isClient),
          failAt \in FailSteps(isClient) :
        Construct(s, 5, port, ip, isClient, reuseAddr, queued, junk, failAt)

(***************************************************************************)
(* Socket: accept, connect, connectRef.                                    *)
(***************************************************************************)
\* accept without its role check
accept_role_never(sk) == FALSE
\* accept: if(isClient) throw
accept_role(sk) == sk.isClient
\* connect, connectRef: if(!isClient) throw
connect_role(sk) == ~sk.isClient

\* accept leaving the Node's address as new Node() made it
accept_node_noaddr(v, sk, r) == [NewNode EXCEPT !.sock_fd = r.res]
\* The Node accept fills in from the OS's answer r.  Variant 1 also stores
\* the peer's ip as text and the listener's own port; variant 2 does not.
accept_node(v, sk, r) ==
    LET n0 == [NewNode EXCEPT !.sock_fd = r.res,
                              !.addr = IF r.res >= 0 THEN r.peer ELSE ZeroAddr]
    IN  IF v = 1
        THEN [n0 EXCEPT !.ip = inet_ntoa(n0.addr.addr), !.port = sk.port]
        ELSE n0

\* Socket::accept
Accept(s) ==
    \E fail \in BOOLEAN :
    /\ socks[s].made
    /\ LET sk == socks[s] IN
       IF accept_role(sk)
       THEN /\ last' = [NoLast EXCEPT !.op = "accept", !.kind = "Socket",
                                      !.obj = s, !.err = "RoleError"]
            /\ UNCHANGED << fdt, conns, nodes, stale >>
       ELSE /\ AcceptReturns(fdt, conns, sk.socket, fail)
            /\ FreeNodes # {}
            /\ LET r    == os_accept(fdt, conns, sk.socket, fail)
                   node == accept_node(variant, sk, r)
                   ok   == ~(node.sock_fd < 0)
               IN  /\ fdt' = r.t
                   /\ conns' = r.cs
                   /\ stale' = stale \ {r.res}
                   /\ nodes' = IF ok
                               THEN [nodes EXCEPT ![NewNodeId] =
                                       [node EXCEPT !.handed = TRUE]]
                               ELSE nodes
                   /\ last' = [NoLast EXCEPT
                                 !.op = "accept", !.kind = "Socket", !.obj = s,
                                 !.fd = sk.socket,
                                 !.err = IF ok THEN "" ELSE "AcceptError",
                                 !.calls = << Call("accept", sk.socket, r.peer,
                                                   0, r.res) >>,
                                 !.node = IF ok THEN NewNodeId ELSE 0]
    /\ UNCHANGED << variant, socks, closed >>

\* Socket::connect
Connect(s) ==
    \E fail \in BOOLEAN :
    /\ socks[s].made
    /\ LET sk == socks[s] IN
       IF connect_role(sk)
       THEN /\ last' = [NoLast EXCEPT !.op = "connect", !.kind = "Socket",
                                      !.obj = s, !.err = "RoleError"]
            /\ UNCHANGED << fdt, conns >>
       ELSE /\ (~fail /\ CanConnect(fdt, conns, sk.socket, sk.addr))
                   => UnusedConns(conns) # {}
            /\ LET r == os_connect(fdt, conns, sk.socket, sk.addr, fail, TRUE)
               IN  /\ fdt' = r.t
                   /\ conns' = r.cs
                   /\ last' = [NoLast EXCEPT
                                 !.op = "connect", !.kind = "Socket", !.obj = s,
                                 !.fd = sk.socket,
                                 !.err = IF r.res < 0 THEN "ConnectError" ELSE "",
                                 !.calls = << Call("connect", sk.socket, sk.addr,
                                                   0, r.res) >>]
    /\ UNCHANGED << variant, socks, nodes, stale, closed >>

\* connectRef returning a Node without the socket's descriptor
connectRef_node_nofd(sk) ==
    [NewNode EXCEPT !.ip = sk.ip, !.port = sk.port]
\* The Node connectRef builds.
connectRef_node(sk) ==
    [NewNode EXCEPT !.sock_fd = sk.socket, !.ip = sk.ip, !.port = sk.port]
\* The address connectRef hands to ::connect: node->getAddr().
connectRef_addr(sk, node) == node.addr

\* Socket::connectRef
ConnectRef(s) ==
    \E fail \in BOOLEAN, unspecOk \in BOOLEAN :
    /\ socks[s].made
    /\ LET sk == socks[s] IN
       IF connect_role(sk)
       THEN /\ last' = [NoLast EXCEPT !.op = "connectRef", !.kind = "Socket",
                                      !.obj = s, !.err = "RoleError"]
            /\ UNCHANGED << fdt, conns, nodes >>
       ELSE /\ FreeNodes # {}
            /\ LET node == connectRef_node(sk)
                   a    == connectRef_addr(sk, node)
               IN  /\ (~fail /\ CanConnect(fdt, conns, sk.socket, a))
                          => UnusedConns(conns) # {}
                   /\ LET r == os_connect(fdt, conns, sk.socket, a, fail, unspecOk)
                      IN  /\ fdt' = r.t
                          /\ conns' = r.cs
                          /\ nodes' = IF r.res < 0 THEN nodes
                                      ELSE [nodes EXCEPT ![NewNodeId] =
                                              [node EXCEPT !.handed = TRUE]]
                          /\ last' = [NoLast EXCEPT
                                        !.op = "connectRef", !.kind = "Socket",
                                        !.obj = s, !.fd = sk.socket,
                                        !.err = IF r.res < 0 THEN "ConnectError"
                                                ELSE "",
                                        !.calls = << Call("connect", sk.socket, a,
                                                          0, r.res) >>,
                                        !.node = IF r.res < 0 THEN 0
                                                 ELSE NewNodeId]
    /\ UNCHANGED << variant, socks, stale, closed >>

(***************************************************************************)
(* Socket: send, recv, close.                                              *)
(***************************************************************************)
\* The descriptors a caller passes to send and recv: none (the default
\* argument, INVALID_SOCKET), or a Node converted by operator sock_t.
FdArgs == {INVALID_SOCKET} \cup { nodes[n].sock_fd : n \in { m \in AllNodeIds : nodes[m].alive } }

\* The counts the OS may report for a send of data: all of it, or one byte less.
SendCounts(data) ==
    {Len_(data)} \cup (IF Len_(data) >= 2 THEN {Len_(data) - 1} ELSE {})
\* The payloads tried on a descriptor: every one where a send can reach a
\* connection, one where the OS refuses the descriptor whatever the bytes.
SendPayloads(can) == IF can THEN PayloadIds ELSE {2}
\* The count the OS would report matters only if the call can succeed.
OsCounts(can, data) == IF can THEN SendCounts(data) ELSE {0}
\* The counts the OS may report for a recv of up to size bytes with avail
\* bytes queued: as much as fits, or one byte less than is queued.
RecvCounts(avail, size) ==
    {Min(avail, size)} \cup (IF avail >= 2 THEN {Min(avail - 1, size)} ELSE {})

RECURSIVE SumLen(_, _)
SumLen(cs, S) ==
    IF S = {} THEN 0
    ELSE LET c == CHOOSE x \in S : TRUE
         IN  Len(cs[c].sends["c"]) + Len(cs[c].sends["s"]) + SumLen(cs, S \ {c})
TotalSends(cs) == SumLen(cs, ConnIds)

\* The ghost record of what the receiving side of fd's connection was given.
Given(t, cs, fd, out) ==
    IF IsSock(t, fd) /\ t[fd].st = "connected"
    THEN [cs EXCEPT ![t[fd].conn].got[t[fd].side] = Cat(@, out)]
    ELSE cs

\* Whether the environment makes an OS call fail that would have succeeded
\* (a call that fails anyway needs no help).
Fails(couldSucceed) == IF couldSucceed THEN BOOLEAN ELSE {FALSE}

\* if(socket == INVALID_SOCKET) { socket = this->socket; }
io_target(sk, fdArg) == IF fdArg = INVALID_SOCKET THEN sk.socket ELSE fdArg
\* send taking a count of zero for a failure too
send_throws_zero(sent) == sent <= 0
\* send without its check of the OS result
send_throws_never(sent) == FALSE
\* if(sent < 0) throw
send_throws(sent) == sent < 0
\* recv asking the OS for one byte more than the buffer holds
recv_size_wide == BUFFER_SIZE + 1
\* ::recv(socket, buffer, 4096, 0): the size handed to the OS
recv_size == BUFFER_SIZE
\* if(received < 0) throw
recv_throws(received) == received < 0
\* Socket::recv returning the whole buffer
recv_string_whole(buffer, received) == buffer
\* Socket::recv: std::string(buffer, received)
recv_string(buffer, received) == Take(buffer, received)
\* Node::recv dropping the last byte the OS delivered
Node_recv_string_short(buffer, received) == Take(buffer, received - 1)
\* Node::recv: std::string(buffer, received); if(received == 0) data = ""
Node_recv_string(buffer, received) ==
    IF received = 0 THEN << >> ELSE Take(buffer, received)

\* Socket::send
SockSendTo(s, fdArg) ==
    \E p \in SendPayloads(CanSend(fdt, conns, io_target(socks[s], fdArg))),
       fail \in Fails(CanSend(fdt, conns, io_target(socks[s], fdArg))) :
    \E k \in OsCounts(~fail, Payload(p)) :
    /\ socks[s].made
    /\ LET data == Payload(p)
           fd == io_target(socks[s], fdArg)
           r  == os_send(fdt, conns, fd, data, k, fail)
       IN  /\ (~fail /\ CanSend(fdt, conns, fd)) => TotalSends(conns) < MaxSends
           /\ conns' = r.cs
           /\ last' = [NoLast EXCEPT
                         !.op = "send", !.kind = "Socket", !.obj = s, !.fd = fd,
                         !.data = data,
                         !.err = IF send_throws(r.res) THEN "SendError" ELSE "",
                         !.calls = << Call("send", fd, ZeroAddr, Len_(data),
                                           r.res) >>,
                         !.hasRet = ~send_throws(r.res),
                         !.ret = IF send_throws(r.res) THEN 0 ELSE r.res]
    /\ UNCHANGED << variant, fdt, socks, nodes, stale, closed >>
\* sock.send(data) and sock.send(data, node)
SockSend(s) == \E fdArg \in FdArgs : SockSendTo(s, fdArg)

\* Socket::recv (with the object's own buffer)
SockRecvFrom(s, fdArg) ==
    \E fail \in Fails(IsConnected(fdt, io_target(socks[s], fdArg))) :
    /\ socks[s].made
    /\ LET fd == io_target(socks[s], fdArg) IN
       \E n \in RecvCounts(Len_(Queued(fdt, conns, fd)), recv_size) :
       /\ RecvReturns(fdt, conns, fd, fail)
       /\ LET r   == os_recv(fdt, conns, fd, socks[s].buffer, n, fail)
              out == IF recv_throws(r.res) THEN << >>
                     ELSE recv_string(r.buf, r.res)
          IN  /\ conns' = Given(fdt, r.cs, fd, out)
              /\ socks' = [socks EXCEPT ![s].buffer = r.buf]
              /\ last' = [NoLast EXCEPT
                            !.op = "recv", !.kind = "Socket", !.obj = s,
                            !.fd = fd,
                            !.err = IF recv_throws(r.res) THEN "RecvError" ELSE "",
                            !.calls = << Call("recv", fd, ZeroAddr, recv_size,
                                              r.res) >>,
                            !.hasRet = ~recv_throws(r.res),
                            !.data = r.del,
                            !.out = out]
    /\ UNCHANGED << variant, fdt, nodes, stale, closed >>
\* sock.recv() and sock.recv(node)
SockRecv(s) == \E fdArg \in FdArgs : SockRecvFrom(s, fdArg)

\* For the record of close(): the Node made by accept or connectRef whose
\* destructor, the call just before, closed descriptor fd (0: there is none).
AliasClosed(fd) ==
    IF /\ last.op = "destroy"
       /\ last.obj \in NodeIds
       /\ last.calls # << >>
       /\ last.fd = fd
    THEN last.obj ELSE 0

\* Socket::close
SockClose(s) ==
    /\ socks[s].made
    /\ LET fd == socks[s].socket
           r  == os_close(fdt, conns, fd)
       IN  /\ fdt' = r.t
           /\ conns' = r.cs
           /\ closed' = IF r.res < 0 THEN closed ELSE closed \cup {s}
           /\ stale' = IF r.res < 0 THEN stale ELSE stale \cup {fd}
           /\ last' = [NoLast EXCEPT
                         !.op = "close", !.kind = "Socket", !.obj = s, !.fd = fd,
                         !.err = IF r.res < 0 THEN "CloseError" ELSE "",
                         !.calls = << Call("close", fd, ZeroAddr, 0, r.res) >>,
                         !.node = AliasClosed(fd)]
    /\ UNCHANGED << variant, socks, nodes >>

(***************************************************************************)
(* Node: send, recv (variant 1 only), destructor.                          *)
(***************************************************************************)
\* Node::send (returns void)
NodeSend(n) ==
    \E p \in SendPayloads(CanSend(fdt, conns, nodes[n].sock_fd)),
       fail \in Fails(CanSend(fdt, conns, nodes[n].sock_fd)) :
    \E k \in OsCounts(~fail, Payload(p)) :
    /\ variant = 1
    /\ nodes[n].alive
    /\ LET data == Payload(p)
           fd == nodes[n].sock_fd
           r  == os_send(fdt, conns, fd, data, k, fail)
       IN  /\ (~fail /\ CanSend(fdt, conns, fd)) => TotalSends(conns) < MaxSends
           /\ conns' = r.cs
           /\ last' = [NoLast EXCEPT
                         !.op = "send", !.kind = "Node", !.obj = n, !.fd = fd,
                         !.data = data,
                         !.err = IF send_throws(r.res) THEN "SendError" ELSE "",
                         !.calls = << Call("send", fd, ZeroAddr, Len_(data),
                                           r.res) >>]
    /\ UNCHANGED << variant, fdt, socks, nodes, stale, closed >>

\* Node::recv (with the object's own buffer)
NodeRecv(n) ==
    \E fail \in Fails(IsConnected(fdt, nodes[n].sock_fd)) :
    /\ variant = 1
    /\ nodes[n].alive
    /\ LET fd == nodes[n].sock_fd IN
       \E cnt \in RecvCounts(Len_(Queued(fdt, conns, fd)), recv_size) :
       /\ RecvReturns(fdt, conns, fd, fail)
       /\ LET r   == os_recv(fdt, conns, fd, nodes[n].buffer, cnt, fail)
              out == IF recv_throws(r.res) THEN << >>
                     ELSE Node_recv_string(r.buf, r.res)
          IN  /\ conns' = Given(fdt, r.cs, fd, out)
              /\ nodes' = [nodes EXCEPT ![n].buffer = r.buf]
              /\ last' = [NoLast EXCEPT
                            !.op = "recv", !.kind = "Node", !.obj = n, !.fd = fd,
                            !.err = IF recv_throws(r.res) THEN "RecvError" ELSE "",
                            !.calls = << Call("recv", fd, ZeroAddr, recv_size,
                                              r.res) >>,
                            !.hasRet = ~recv_throws(r.res),
                            !.data = r.del,
                            !.out = out]
    /\ UNCHANGED << variant, fdt, socks, stale, closed >>

\* ~Node closing whatever the flag says
dtor_returns_never(nd) == FALSE
\* ~Node: if(noCloseOnDestruct) return;
dtor_returns(nd) == nd.noCloseOnDestruct

\* delete node: Node::~Node
NodeDestroy(n) ==
    /\ nodes[n].alive
    /\ LET fd == nodes[n].sock_fd
           r  == IF dtor_returns(nodes[n])
                 THEN [res |-> 0, t |-> fdt, cs |-> conns]
                 ELSE os_close(fdt, conns, fd)
       IN  /\ fdt' = r.t
           /\ conns' = r.cs
           /\ nodes' = [nodes EXCEPT ![n] = NoNode]
           /\ last' = [NoLast EXCEPT
                         !.op = "destroy", !.kind = "Node", !.obj = n, !.fd = fd,
                         !.noClose = nodes[n].noCloseOnDestruct,
                         !.calls = IF dtor_returns(nodes[n]) THEN << >>
                                   ELSE << Call("close", fd, ZeroAddr, 0, r.res) >>]
    /\ UNCHANGED << variant, socks, stale, closed >>

(***************************************************************************)
(* Node: the constructors a caller uses, setSock, copies.                  *)
(***************************************************************************)
\* A sockaddr_in nobody initialised: indeterminate, read by no operation.
JunkAddr == [fam |-> "indeterminate", addr |-> 0, port |-> 0]
\* skt::Node node; default-initialisation runs the member initialisers
\* (port{}, sock_fd{}, noCloseOnDestruct = false) and leaves addr and buffer
\* indeterminate.
LocalNode == [NewNode EXCEPT !.addr = JunkAddr, !.buffer = Garbage]
\* Node::setAddr
Node_setAddr(nd) ==
    [fam |-> "AF_INET", port |-> htons(nd.port), addr |-> inet_addr(nd.ip)]
\* Node(sock_t sock_fd, std::string ip, int port); the second variant also
\* calls setAddr.
Node3(v, fd, ip, port) ==
    LET n0 == [LocalNode EXCEPT !.sock_fd = fd, !.ip = ip, !.port = port,
                                !.handed = TRUE]
    IN  IF v = 2 THEN [n0 EXCEPT !.addr = Node_setAddr(n0)] ELSE n0

\* The descriptor values a caller has at hand to pass on: those of its
\* Sockets (getSocket), those of its Nodes (getSock), and INVALID_SOCKET.
KnownFds ==
    {INVALID_SOCKET}
      \cup { socks[s].socket : s \in { x \in SockIds : socks[x].made } }
      \cup { nodes[n].sock_fd : n \in { m \in AllNodeIds : nodes[m].alive } }

NodeLast(op, n, fd) ==
    [NoLast EXCEPT !.op = op, !.kind = "Node", !.obj = n, !.fd = fd]

\* skt::Node node;
NodeDefault(n) ==
    /\ ~nodes[n].alive
    /\ nodes' = [nodes EXCEPT ![n] = LocalNode]
    /\ last' = NodeLast("Node()", n, 0)
    /\ UNCHANGED << variant, fdt, conns, socks, stale, closed >>

\* skt::Node node(noCloseOnDestruct);
NodeNoClose(n) ==
    \E b \in BOOLEAN :
    /\ ~nodes[n].alive
    /\ nodes' = [nodes EXCEPT ![n] =
                   [LocalNode EXCEPT !.noCloseOnDestruct = b]]
    /\ last' = NodeLast("Node(bool)", n, 0)
    /\ UNCHANGED << variant, fdt, conns, socks, stale, closed >>

\* skt::Node node(sock_fd, ip, port);
NodeOf(n) ==
    \E fd \in KnownFds :
    /\ ~nodes[n].alive
    /\ nodes' = [nodes EXCEPT ![n] = Node3(variant, fd, LOCALHOST, PORT)]
    /\ last' = NodeLast("Node(fd,ip,port)", n, fd)
    /\ UNCHANGED << variant, fdt, conns, socks, stale, closed >>

\* node.setSock(sock_fd)
NodeSetSock(n) ==
    \E fd \in KnownFds :
    /\ nodes[n].alive
    /\ nodes' = [nodes EXCEPT ![n].sock_fd = fd, ![n].handed = TRUE]
    /\ last' = NodeLast("setSock", n, fd)
    /\ UNCHANGED << variant, fdt, conns, socks, stale, closed >>

\* node = other; or skt::Node node = other;  The implicit copy takes every
\* member, noCloseOnDestruct included, and closes nothing.
NodeCopy(n, m) ==
    /\ n # m
    /\ nodes[m].alive
    /\ nodes' = [nodes EXCEPT ![n] = nodes[m]]
    /\ last' = [NodeLast("copy", n, nodes[m].sock_fd) EXCEPT !.node = m]
    /\ UNCHANGED << variant, fdt, conns, socks, stale, closed >>

(***************************************************************************)
(* The specification.                                                      *)
(***************************************************************************)
Init ==
    /\ variant \in {1, 2}
    /\ fdt = [f \in Fds |-> IF f \in StdFds THEN StdFd ELSE FreeFd]
    /\ conns = [c \in ConnIds |-> NoConn]
    /\ socks = [s \in SockIds |-> NoSock]
    /\ nodes = [n \in AllNodeIds |-> NoNode]
    /\ stale = {}
    /\ closed = {}
    /\ last = NoLast

\* The life of the sockets: every way to construct one, with every OS call
\* of the construction failing or not, connecting, accepting, closing.
Next ==
    \/ \E s \in SockIds : Construct2(s)
    \/ \E s \in SockIds : Construct5(s)
    \/ \E s \in SockIds : Accept(s)
    \/ \E s \in SockIds : Connect(s)
    \/ \E s \in SockIds : ConnectRef(s)
    \/ \E s \in SockIds : SockClose(s)
    \/ \E n \in NodeIds : NodeDestroy(n)

Spec == Init /\ [][Next]_vars

\* The traffic: sockets constructed by Socket(port, isClient), connected,
\* accepted, written to, read from, closed.
NextIO ==
    \/ \E s \in SockIds : Construct2Ok(s)
    \/ \E s \in SockIds : Accept(s)
    \/ \E s \in SockIds : Connect(s)
    \/ \E s \in SockIds : ConnectRef(s)
    \/ \E s \in SockIds : SockSend(s)
    \/ \E s \in SockIds : SockRecv(s)
    \/ \E s \in SockIds : SockClose(s)
    \/ \E n \in NodeIds : NodeSend(n)
    \/ \E n \in NodeIds : NodeRecv(n)
    \/ \E n \in NodeIds : NodeDestroy(n)

SpecIO == Init /\ [][NextIO]_vars

\* The life of the Nodes: the one connectRef returns, the ones the caller
\* constructs, setSock, copies, destruction.
NextNode ==
    \/ \E s \in SockIds : Construct2Ok(s)
    \/ \E s \in SockIds : ConnectRef(s)
    \/ \E s \in SockIds : SockSend(s)
    \/ \E s \in SockIds : SockRecv(s)
    \/ \E s \in SockIds : SockClose(s)
    \/ \E n \in LocalIds : NodeDefault(n)
    \/ \E n \in LocalIds : NodeNoClose(n)
    \/ \E n \in LocalIds : NodeOf(n)
    \/ \E n \in LocalIds : NodeSetSock(n)
    \/ \E n \in LocalIds, m \in NodeIds : NodeCopy(n, m)
    \/ \E n \in AllNodeIds : NodeDestroy(n)

SpecNode == Init /\ [][NextNode]_vars

(***************************************************************************)
(* Properties: roles.                                                      *)
(***************************************************************************)
\* C1: accept() on a client-role socket fails with RoleError, connect() and
\* connectRef() on a server-role socket fail with RoleError, and on a socket
\* of the right role none of them fails with RoleError.
RoleErrors ==
    /\ last.op = "accept" =>
          (last.err = "RoleError" <=> socks[last.obj].isClient)
    /\ last.op \in {"connect", "connectRef"} =>
          (last.err = "RoleError" <=> ~socks[last.obj].isClient)
\* accept() was called on a client and failed with RoleError.
RoleErrorsSeen ==
    /\ last.op = "accept"
    /\ socks[last.obj].isClient
    /\ last.err = "RoleError"

(***************************************************************************)
(* Properties: construction.                                               *)
(***************************************************************************)
CallNames == [i \in 1..Len(last.calls) |-> last.calls[i].call]
\* The OS steps a construction with the arguments of the last call is to take.
StepsWanted ==
    IF last.args.isClient THEN << "socket" >>
    ELSE << "socket" >>
         \o (IF last.args.reuseAddr THEN << "setsockopt" >> ELSE << >>)
         \o << "bind", "listen" >>
StepError(name) ==
    CASE name = "socket" -> "CreationError"
      [] name = "setsockopt" -> "OptionError"
      [] name = "bind" -> "BindError"
      [] OTHER -> "ListenError"
HasCall(name) == \E i \in 1..Len(last.calls) : last.calls[i].call = name
CallOf(name) ==
    last.calls[CHOOSE i \in 1..Len(last.calls) : last.calls[i].call = name]

\* C2: a server-role construction takes the OS steps create, set SO_REUSEADDR
\* (only if requested), bind, listen in this order, each at most once; it
\* succeeds only if every step succeeded, and then the descriptor is
\* listening; at the first failing step it fails with that step's error and
\* attempts no later step.  A client-role construction only creates, and
\* leaves the descriptor unconnected.
ConstructionSteps ==
    last.op = "construct" =>
      LET n == Len(last.calls) IN
      /\ n >= 1 /\ n <= Len(StepsWanted)
      /\ CallNames = SubSeq(StepsWanted, 1, n)
      /\ \A i \in 1..(n - 1) : last.calls[i].res >= 0
      /\ last.err = "" <=> (n = Len(StepsWanted) /\ last.calls[n].res >= 0)
      /\ last.err # "" =>
            /\ last.calls[n].res < 0
            /\ last.err = StepError(last.calls[n].call)
            /\ ~socks[last.obj].made
      /\ last.err = "" =>
            /\ socks[last.obj].made
            /\ socks[last.obj].socket = last.fd
            /\ fdt[last.fd].st = IF last.args.isClient THEN "created"
                                 ELSE "listening"

\* C3: in a server-role construction SO_REUSEADDR is set on the descriptor
\* before bind if and only if the reuseAddr argument is true, and listen is
\* called with exactly the backlog argument.
ReuseAndBacklog ==
    (last.op = "construct" /\ ~last.args.isClient) =>
      /\ HasCall("bind") =>
            (last.args.reuseAddr <=>
               (/\ CallNames[2] = "setsockopt"
                /\ last.calls[2].fd = last.fd
                /\ last.calls[2].res = 0))
      /\ HasCall("listen") => CallOf("listen").n = last.args.queued

(***************************************************************************)
(* Properties: accept, connectRef.                                         *)
(***************************************************************************)
IsListening(t, fd) == IsSock(t, fd) /\ t[fd].st = "listening"

\* What accept() on a server-role socket hands back.
AcceptOutcome ==
    (last.op = "accept" /\ ~socks[last.obj].isClient) =>
      LET r == last.calls[1] IN
      /\ Len(last.calls) = 1
      /\ r.call = "accept"
      /\ r.fd = socks[last.obj].socket
      /\ r.res >= 0 =>
            /\ last.err = ""
            /\ last.node \in NodeIds
            /\ nodes[last.node].alive
            /\ nodes[last.node].sock_fd = r.res
            /\ r.res # socks[last.obj].socket
            /\ IsConnected(fdt, r.res)
            /\ nodes[last.node].addr = conns[fdt[r.res].conn].peer
      /\ r.res < 0 =>
            /\ last.err = "AcceptError"
            /\ last.node = 0
\* What accept() on a server-role socket leaves alone.
AcceptKeeps ==
    \A s \in SockIds :
      (Accept(s) /\ ~socks[s].isClient) =>
        /\ socks'[s] = socks[s]
        /\ IsListening(fdt, socks[s].socket) => IsListening(fdt', socks[s].socket)
        /\ last'.err = "AcceptError" => nodes' = nodes

\* C4: accept() on a server-role socket returns, when the OS accept yields a
\* descriptor, a new Node with that descriptor (not the listener's own) and
\* the peer's address; when the OS call fails it fails with AcceptError and
\* returns no Node.  Either way the listener keeps its descriptor and stays
\* listening.
AcceptContract == []AcceptOutcome /\ [][AcceptKeeps]_vars
\* accept() has returned a Node for a connection.
AcceptSeen ==
    /\ last.op = "accept"
    /\ last.err = ""
    /\ last.node \in NodeIds
    /\ nodes[last.node].sock_fd = last.calls[1].res
    /\ IsListening(fdt, socks[last.obj].socket)

\* C5: connectRef() on a client-role socket issues the OS connect on the
\* socket's descriptor towards the address connect() uses (the ip and port
\* given at construction), fails with ConnectError exactly when that call
\* fails, and on success returns a Node with the socket's descriptor, ip
\* and port, the descriptor being connected as after connect().
ConnectRefAsConnect ==
    (last.op = "connectRef" /\ socks[last.obj].isClient) =>
      LET r  == last.calls[1]
          sk == socks[last.obj]
      IN  /\ Len(last.calls) = 1
          /\ r.call = "connect"
          /\ r.fd = sk.socket
          /\ r.a = Socket_setAddr(variant, sk)
          /\ last.err = "ConnectError" <=> r.res < 0
          /\ last.err = "" =>
                /\ nodes[last.node].sock_fd = sk.socket
                /\ nodes[last.node].ip = sk.ip
                /\ nodes[last.node].port = sk.port
                /\ IsConnected(fdt, sk.socket)

(***************************************************************************)
(* Properties: send, recv.                                                 *)
(***************************************************************************)
\* The last call was a send or recv that made exactly one OS call, name, on
\* the descriptor the call was aimed at.
OneOsCall(name) ==
    /\ Len(last.calls) = 1
    /\ last.calls[1].call = name
    /\ last.calls[1].fd = last.fd

\* C6 as stated: send(data) makes exactly one OS write call; it fails with
\* SendError if and only if the OS result is negative, and otherwise returns
\* the count the OS reported, also when that is less than the length of data.
SendReturnsCount ==
    last.op = "send" =>
      /\ OneOsCall("send")
      /\ last.calls[1].n = Len_(last.data)
      /\ last.err = "SendError" <=> last.calls[1].res < 0
      /\ last.calls[1].res >= 0 =>
            /\ last.err = ""
            /\ last.hasRet
            /\ last.ret = last.calls[1].res

\* C6, amended: send(data) makes exactly one OS write call and fails with
\* SendError if and only if the OS result is negative; otherwise
\* Socket::send returns the count the OS reported, also when that is less
\* than the length of data, and Node::send returns nothing.
SendContract ==
    last.op = "send" =>
      /\ OneOsCall("send")
      /\ last.calls[1].n = Len_(last.data)
      /\ last.err = "SendError" <=> last.calls[1].res < 0
      /\ last.calls[1].res >= 0 =>
            /\ last.err = ""
            /\ last.kind = "Socket" => (last.hasRet /\ last.ret = last.calls[1].res)
            /\ last.kind = "Node" => ~last.hasRet
\* Socket::send has returned a count smaller than the length of its data.
SendShortSeen ==
    /\ last.op = "send"
    /\ last.kind = "Socket"
    /\ last.err = ""
    /\ last.ret = last.calls[1].res
    /\ last.ret < Len_(last.data)

\* C7: recv() on a Socket or a Node fails with RecvError if and only if the
\* OS result is negative; on an OS result of zero it returns an empty
\* payload; otherwise it returns exactly the n bytes the OS delivered, n
\* being the OS result.
RecvContract ==
    last.op = "recv" =>
      /\ OneOsCall("recv")
      /\ last.err = "RecvError" <=> last.calls[1].res < 0
      /\ last.calls[1].res = 0 =>
            /\ last.hasRet
            /\ last.out = << >>
      /\ last.calls[1].res > 0 =>
            /\ last.hasRet
            /\ Len_(last.out) = last.calls[1].res
            /\ last.out = last.data
\* recv() has returned an empty payload for an OS result of zero: the peer
\* had closed its side.
RecvEmptySeen ==
    /\ last.op = "recv"
    /\ last.calls[1].res = 0
    /\ last.err = ""
    /\ last.out = << >>
    /\ IsConnected(fdt, last.fd)
    /\ ~conns[fdt[last.fd].conn].open[Other(fdt[last.fd].side)]

(***************************************************************************)
(* Properties: what arrives.                                               *)
(***************************************************************************)
Sides == {"c", "s"}
\* The payloads handed to the send calls sq, one after the other.
RECURSIVE SentBytes(_)
SentBytes(sq) ==
    IF sq = << >> THEN << >> ELSE Cat(sq[1].p, SentBytes(Tail(sq)))
\* The bytes the OS took from the send calls sq: what they returned as count.
RECURSIVE TakenBytes(_)
TakenBytes(sq) ==
    IF sq = << >> THEN << >>
    ELSE Cat(Take(sq[1].p, sq[1].k), TakenBytes(Tail(sq)))

\* Connection c is established, the client has made one send() of at most
\* 4096 bytes on it, and the server side has read all that arrived.
OneSendRead(c) ==
    /\ conns[c].st = "open"
    /\ conns[c].open["s"]
    /\ Len(conns[c].sends["s"]) = 1
    /\ Len_(conns[c].sends["s"][1].p) <= BUFFER_SIZE
    /\ conns[c].inq["s"] = << >>

\* C8 as stated: the bytes the server side receives from one send() of at
\* most 4096 bytes by the client are identical to the payload.
RoundTripPayload ==
    \A c \in ConnIds :
      OneSendRead(c) => conns[c].got["s"] = conns[c].sends["s"][1].p

\* C8, amended: the bytes the server side receives from one send() of at
\* most 4096 bytes by the client are identical to the first k bytes of the
\* payload, k being the count send() returned; they are the payload when
\* send() returned its full length.
RoundTrip ==
    \A c \in ConnIds :
      OneSendRead(c) =>
        LET sd == conns[c].sends["s"][1] IN
        /\ conns[c].got["s"] = Take(sd.p, sd.k)
        /\ sd.k = Len_(sd.p) => conns[c].got["s"] = sd.p
\* A payload of exactly 4096 bytes has made the round trip.
RoundTripSeen ==
    \E c \in ConnIds :
      /\ OneSendRead(c)
      /\ Len_(conns[c].sends["s"][1].p) = BUFFER_SIZE
      /\ conns[c].nrecv["s"] >= 1
      /\ conns[c].got["s"] = conns[c].sends["s"][1].p

\* C9 as stated: every recv() returns at most 4096 bytes, and what a caller
\* looping on recv() has been given, once all that arrived is read, is the
\* bytes handed to send().
RecvLoopPayload ==
    /\ last.op = "recv" => Len_(last.out) <= BUFFER_SIZE
    /\ \A c \in ConnIds, x \in Sides :
         (conns[c].open[x] /\ conns[c].inq[x] = << >>) =>
            conns[c].got[x] = SentBytes(conns[c].sends[x])

\* C9, amended: every recv() returns at most 4096 bytes, so more than 4096
\* bytes take several calls; the results of the recv() calls, in call
\* order, followed by what is still queued, are the bytes the OS took from
\* the send() calls (the counts send() returned), none lost, duplicated or
\* out of place.
RecvLoop ==
    /\ last.op = "recv" => Len_(last.out) <= BUFFER_SIZE
    /\ \A c \in ConnIds, x \in Sides :
         conns[c].open[x] =>
            /\ Cat(conns[c].got[x], conns[c].inq[x]) = TakenBytes(conns[c].sends[x])
            /\ Len_(conns[c].got[x]) <= BUFFER_SIZE * conns[c].nrecv[x]
\* A payload of more than 4096 bytes has arrived whole over two recv() calls.
RecvLoopSeen ==
    \E c \in ConnIds, x \in Sides :
      /\ conns[c].open[x]
      /\ conns[c].inq[x] = << >>
      /\ conns[c].nrecv[x] >= 2
      /\ Len_(conns[c].got[x]) > BUFFER_SIZE
      /\ conns[c].got[x] = SentBytes(conns[c].sends[x])

(***************************************************************************)
(* Properties: after close.                                                *)
(***************************************************************************)
\* The descriptors of the Sockets on which close() has succeeded.
ClosedFds == { socks[s].socket : s \in closed }
IoError == IF last.op = "send" THEN "SendError" ELSE "RecvError"

\* C10 as stated: after close() has succeeded on a socket, every later
\* send() and recv() on its descriptor fails, whatever sockets are created,
\* accepted or closed in between.
AfterCloseAlways ==
    (last.op \in {"send", "recv"} /\ last.fd \in ClosedFds) =>
       last.err = IoError

\* C10, amended: after close() has succeeded on a socket, every later send()
\* and recv() on its descriptor fails, as long as the OS has not handed the
\* descriptor's number out again to a socket created or accepted since.
AfterClose ==
    (last.op \in {"send", "recv"} /\ last.fd \in stale) =>
       last.err = IoError
\* recv() on a closed Socket has failed with RecvError.
AfterCloseSeen ==
    /\ last.op = "recv"
    /\ last.kind = "Socket"
    /\ last.obj \in closed
    /\ last.fd = socks[last.obj].socket
    /\ last.fd \in stale
    /\ last.err = "RecvError"

(***************************************************************************)
(* Properties: the Node destructor.                                        *)
(***************************************************************************)
\* What destroying Node n does: without the flag one OS close, on the
\* descriptor the Node holds at that moment, which frees it if it was open
\* and touches no other descriptor; with the flag no OS call at all.
DestroyStep(n) ==
    LET fd == nodes[n].sock_fd IN
    IF nodes[n].noCloseOnDestruct
    THEN /\ last'.calls = << >>
         /\ fdt' = fdt
         /\ conns' = conns
    ELSE /\ Len(last'.calls) = 1
         /\ last'.calls[1].call = "close"
         /\ last'.calls[1].fd = fd
         /\ IsOpen(fdt, fd) => ~IsOpen(fdt', fd)
         /\ \A g \in Fds \ {fd} : fdt'[g] = fdt[g]

ClientsOf(fd) ==
    { s \in SockIds :
        /\ socks[s].made
        /\ socks[s].isClient
        /\ IsConnected(fdt, socks[s].socket)
        /\ IsConnected(fdt, fd)
        /\ fdt[socks[s].socket].conn = fdt[fd].conn
        /\ fdt[socks[s].socket].side = "c" }

\* C12: when a client Socket has connected to the port of a server Socket,
\* the server's accept() returns a Node, and the port that Node reports is
\* the port passed to the client's constructor.
AcceptedPort ==
    (last.op = "accept" /\ last.err = "") =>
        \A s \in ClientsOf(nodes[last.node].sock_fd) :
            nodes[last.node].port = socks[s].port

(***************************************************************************)
(* Properties: a descriptor shared by a Socket and a Node.                 *)
(***************************************************************************)
\* After a successful connectRef() the Node returned holds the descriptor of
\* the Socket, and its destructor is one that closes.
ConnectRefAliases ==
    (last.op = "connectRef" /\ last.err = "") =>
        /\ nodes[last.node].alive
        /\ nodes[last.node].sock_fd = socks[last.obj].socket
        /\ ~nodes[last.node].noCloseOnDestruct
\* close() on Socket s right after a Node's destructor has issued its OS
\* close on the descriptor of s: a second OS close on the same descriptor.
SecondClose(s) ==
    (/\ last.op = "destroy"
     /\ last.calls # << >>
     /\ last.fd = socks[s].socket
     /\ SockClose(s))
    => /\ last.calls[1].call = "close"
       /\ Len(last'.calls) = 1
       /\ last'.calls[1].call = "close"
       /\ last'.calls[1].fd = last.calls[1].fd

\* C13: nothing guards against closing an aliased descriptor twice: after a
\* successful connectRef() the Socket and the Node returned hold the same
\* descriptor, and destroying the Node (which closes by default) and then
\* calling close() on the Socket issues two OS close calls on it.
AliasedClose ==
    []ConnectRefAliases /\ [][\A s \in SockIds : SecondClose(s)]_vars
\* The Node returned by connectRef() of a Socket was destroyed, closing the
\* descriptor, and close() on the Socket has then issued the second OS
\* close on it, which failed.
AliasedCloseSeen ==
    /\ last.op = "close"
    /\ last.node \in NodeIds
    /\ last.err = "CloseError"
    /\ socks[last.obj].isClient
    /\ last.obj \notin closed
    /\ \A x \in SockIds \ {last.obj} :
          socks[x].made => socks[x].socket # last.fd

(***************************************************************************)
(* Properties: the descriptor argument of Socket::send and Socket::recv.   *)
(***************************************************************************)
\* The descriptors of the Nodes at hand: what sock.send(data, node) and
\* sock.recv(node) pass explicitly.
NodeFds == { nodes[n].sock_fd : n \in { m \in AllNodeIds : nodes[m].alive } }
\* A send or recv of Socket s with the explicit descriptor d issues its OS
\* call on d.
ExplicitStep(s, d) ==
    (SockSendTo(s, d) \/ SockRecvFrom(s, d)) =>
        /\ Len(last'.calls) = 1
        /\ last'.calls[1].fd = d

\* C14: Socket::send(data, d) and Socket::recv(d) with an explicitly passed
\* descriptor d, the invalid value -1 of a Node included, operate on d and
\* never on the Socket's own descriptor.
ExplicitTarget ==
    [][\A s \in SockIds : \A d \in NodeFds : ExplicitStep(s, d)]_vars

(***************************************************************************)
(* Properties: what a Node's destructor closes.                            *)
(***************************************************************************)
\* Destroying Node n issues an OS close only if the Node was handed the
\* descriptor it holds.
ClosesOwn(n) ==
    (NodeDestroy(n) /\ last'.calls # << >>) => nodes[n].handed

\* C15: a Node's destructor only ever closes a descriptor the Node was
\* given (by accept(), connectRef(), the (descriptor, ip, port) constructor
\* or setSock); a default-constructed Node that never received one closes
\* nothing when destroyed, in particular not descriptor 0.
DestructorOwns ==
    [][\A n \in AllNodeIds : ClosesOwn(n)]_vars

(***************************************************************************)
(* Properties: a construction that fails.                                  *)
(***************************************************************************)
\* C16: when the construction of a server Socket fails at the setsockopt,
\* bind or listen step, the descriptor the create step obtained is closed
\* before the error reaches the caller: no descriptor stays open.
FailedConstructionCloses ==
    (/\ last.op = "construct"
     /\ last.err \in {"OptionError", "BindError", "ListenError"})
    => ~IsOpen(fdt, last.fd)
====
